---- MODULE Spec2Model ----
(***************************************************************************)
(* The sign-in step of the onboarding screen (codex-rs/tui/src/onboarding/ *)
(* auth.rs): the AuthModeWidget, the SignInState cell it shares with the   *)
(* background login tasks, and those tasks.                                *)
(*                                                                         *)
(* The foreground functions are operators from a snapshot of the variables *)
(* (a record w, see W) to the record after the call; an action commits the *)
(* record its handler returns.  A handler is one step wherever it takes    *)
(* the state lock once; the two handlers that release the lock and then    *)
(* act on what they read (Enter outside the key entry, and the save after  *)
(* Enter inside it) are two steps, joined by fg.                           *)
(***************************************************************************)
EXTENDS Integers, Sequences, FiniteSets

\* ---------------------------------------------------------------- bounds
\* Background flows (listeners and device-code pollers) started in one run.
MaxFlows == 2
\* Longest API-key buffer of a session with background tasks, in characters.
MaxLen == 1
\* Longest API-key buffer and longest pasted text of any session.
MaxKeyLen == 2
\* Largest step of a direct move_highlight call.
MaxDelta == 2
\* Most announcements in one document.
MaxTips == 3
\* Latest day, of January 2000, on which the announcements are read.
MaxDay == 4

\* ------------------------------------------------------------ vocabulary
None == "None"

SignInOptions == {"ChatGpt", "DeviceCode", "ApiKey"}

\* Option<ForcedLoginMethod>
ForcedLoginMethods == {None, "Chatgpt", "Api"}

\* LoginStatus: NotAuthenticated | AuthMode(ApiKey) | AuthMode(Chatgpt)
LoginStatuses == {"NotAuthenticated", "ApiKey", "Chatgpt"}

\* The texts self.error can carry.
ApiKeyDisabledMessage == "API key login is disabled."
ApiKeyEmptyMessage == "API key cannot be empty"
SaveFailedMessage == "Failed to save API key:"
ServerStartError == "run_login_server error"
DeviceCodeError == "device code login failed"

\* Characters a key event or a paste can carry; " " is the whitespace.
Chars == {"1", "2", "3", " "}

\* Key events: the code, the character of a Char, and whether a Char is a
\* plain press (KeyEventKind::Press without SUPER, CONTROL or ALT).
Key(code, c, plain) == [code |-> code, c |-> c, plain |-> plain]

Keys ==
    {Key(code, "", TRUE) : code \in {"Up", "Down", "Enter", "Esc", "Backspace", "Tab"}}
        \cup {Key("Char", c, TRUE) : c \in Chars}
        \cup {Key("Char", "1", FALSE)}

\* Texts of at most n characters.
Texts(n) == UNION {[1..k -> Chars] : k \in 0..n}

Listeners == 1..MaxFlows
Pollers == 1..MaxFlows

\* ----------------------------------------------------------- SignInState
\* One shape for all variants: id is the listener of a shutdown_flag or the
\* poller of a cancel notification, 0 where the variant has none.
Variant(tag, id, device_code, value, prepopulated_from_env) ==
    [tag |-> tag, id |-> id, device_code |-> device_code, value |-> value,
     prepopulated_from_env |-> prepopulated_from_env]

PickMode == Variant("PickMode", 0, FALSE, <<>>, FALSE)
ChatGptContinueInBrowser(l) == Variant("ChatGptContinueInBrowser", l, FALSE, <<>>, FALSE)
ChatGptDeviceCode(p, device_code) == Variant("ChatGptDeviceCode", p, device_code, <<>>, FALSE)
ChatGptSuccessMessage == Variant("ChatGptSuccessMessage", 0, FALSE, <<>>, FALSE)
ChatGptSuccess == Variant("ChatGptSuccess", 0, FALSE, <<>>, FALSE)
ApiKeyEntry(value, prepopulated_from_env) == Variant("ApiKeyEntry", 0, FALSE, value, prepopulated_from_env)
ApiKeyConfigured == Variant("ApiKeyConfigured", 0, FALSE, <<>>, FALSE)
\* The cell after its last Arc holder has gone.
Dropped == Variant("Dropped", 0, FALSE, <<>>, FALSE)

VARIABLES
    sign_in_state,        \* the value in Arc<RwLock<SignInState>>
    highlighted_mode,     \* AuthModeWidget.highlighted_mode
    error,                \* AuthModeWidget.error
    login_status,         \* AuthModeWidget.login_status
    forced_login_method,  \* AuthModeWidget.forced_login_method
    env_api_key,          \* what read_openai_api_key_from_env returns
    fg,                   \* the foreground's position inside a key handler
    widget_alive,         \* the widget has not been dropped
    task,                 \* each listener's spawned task: none, spawned, awaiting, reloaded,
                          \* and succeeded or failed once it has ended
    shutdowns,            \* shutdown invocations per listener: 0, 1, or 2 for more than one
    poller,               \* the device-code pollers: none, requesting, polling, done
    cancel,               \* the pollers' Notify: a permit is stored
    auth_store,           \* the credentials the store holds: None, ApiKey or Chatgpt
    auth_cache,           \* the credentials the AuthManager has cached
    unframed,             \* the state was written and no frame scheduled since
    lock,                 \* the RwLock: the task that writes, the tasks blocked in write()
    render,               \* the render path: where it is, and the variant it matched
    environ,              \* the process environment: the variables use_zh_cn reads
    platform,             \* the build's target and what GetUserDefaultLocaleName gives
    text,                 \* what tr returned last
    document,             \* the announcement document: its announcements tables
    today,                \* Utc::now().date_naive(), as a day of January 2000
    announcement_tip,     \* what parse_announcement_tip_toml returned
    reloaded              \* the listeners whose task has called auth_manager.reload()

vars ==
    <<sign_in_state, highlighted_mode, error, login_status, forced_login_method,
      env_api_key, fg, widget_alive, task, shutdowns, poller, cancel, auth_store,
      auth_cache, reloaded, unframed, lock, render,
      environ, platform, text, document, today, announcement_tip>>

\* What the sign-in widget's operations never write.
glue == <<environ, platform, text, document, today, announcement_tip>>

\* The variables the operations change, as one record; ok is cleared by an
\* operation that would pass a bound of the model.
W ==
    [sign_in_state |-> sign_in_state, highlighted_mode |-> highlighted_mode,
     error |-> error, login_status |-> login_status, fg |-> fg,
     widget_alive |-> widget_alive, task |-> task, shutdowns |-> shutdowns,
     poller |-> poller, cancel |-> cancel, auth_store |-> auth_store,
     auth_cache |-> auth_cache,
     reloaded |-> reloaded, unframed |-> unframed, lock |-> lock, ok |-> TRUE]

Idle == [pc |-> "idle", snap |-> PickMode, api_key |-> <<>>]

\* ------------------------------------------------------------ AuthManager
\* AuthManager::reload: the cache takes what the store holds.
reload(w) == [w EXCEPT !.auth_cache = w.auth_store]

\* --------------------------------------------------- listener and drop
\* ShutdownHandle::shutdown: the listener is told to stop; its completion
\* future then resolves with an error.  sd counts the invocations.
shutdown(sd, l) == [sd EXCEPT ![l] = @ + 1]

NoShutdownOnDrop(st, sd) == sd

\* impl Drop for ContinueInBrowserState: every dropped value that holds a
\* shutdown_flag calls shutdown on it.
Drop(st, sd) ==
    IF st.tag = "ChatGptContinueInBrowser" /\ st.id # 0 THEN shutdown(sd, st.id) ELSE sd

\* FrameRequester::schedule_frame: a redraw will show what was written.
schedule_frame(w) == [w EXCEPT !.unframed = FALSE]

\* *guard = new: the value that was in the cell is dropped.
Assign(w, new) ==
    [w EXCEPT !.sign_in_state = new, !.shutdowns = Drop(w.sign_in_state, @),
              !.unframed = TRUE]

\* A write through the guard into the value the cell holds.
Modify(w, new) == [w EXCEPT !.sign_in_state = new, !.unframed = TRUE]

\* The tasks that hold a clone of the Arc.
LiveTasks(w) ==
    {l \in Listeners : w.task[l] \in {"spawned", "awaiting", "reloaded", "erred"}}
LivePollers(w) == {p \in Pollers : w.poller[p] \in {"requesting", "polling"}}

\* Arc: the cell is dropped with its last holder.
Release(w) ==
    IF ~w.widget_alive /\ LiveTasks(w) = {} /\ LivePollers(w) = {}
    THEN [w EXCEPT !.sign_in_state = Dropped, !.shutdowns = Drop(w.sign_in_state, @)]
    ELSE w

\* ------------------------------------------------------------- options
\* A widget that allows the API key whatever is forced, for comparison.
api_login_always_allowed == TRUE

is_api_login_allowed == forced_login_method # "Chatgpt"

is_chatgpt_login_allowed == forced_login_method # "Api"

displayed_sign_in_options ==
    <<"ChatGpt">>
        \o (IF is_chatgpt_login_allowed THEN <<"DeviceCode">> ELSE <<>>)
        \o (IF is_api_login_allowed THEN <<"ApiKey">> ELSE <<>>)

\* A selectable list that is the displayed one, for comparison.
selectable_as_displayed == displayed_sign_in_options

selectable_sign_in_options ==
    (IF is_chatgpt_login_allowed THEN <<"ChatGpt", "DeviceCode">> ELSE <<>>)
        \o (IF is_api_login_allowed THEN <<"ApiKey">> ELSE <<>>)

\* iter().position(..).unwrap_or(0): the 0-based index of x in options, 0 if absent.
\* Iterator::position(..).unwrap_or(0)
position_or_0(options, x) ==
    IF \E i \in 1..Len(options) : options[i] = x
    THEN (CHOOSE i \in 1..Len(options) :
              options[i] = x /\ \A j \in 1..(i - 1) : options[j] # x) - 1
    ELSE 0

\* isize::rem_euclid for a positive n.
rem_euclid(a, n) == ((a % n) + n) % n

\* A highlight that stops at the ends of the list, for comparison.
move_highlight_clamped(w, delta) ==
    LET options == selectable_sign_in_options
        target == position_or_0(options, w.highlighted_mode) + delta
        next_index == IF target < 0 THEN 0
                      ELSE IF target >= Len(options) THEN Len(options) - 1 ELSE target
    IN  IF Len(options) = 0
        THEN w
        ELSE [w EXCEPT !.highlighted_mode = options[next_index + 1]]

\* A highlight that moves over the displayed options, for comparison.
move_highlight_over_displayed(w, delta) ==
    LET options == displayed_sign_in_options
        current_index == position_or_0(options, w.highlighted_mode)
        next_index == rem_euclid(current_index + delta, Len(options))
    IN  [w EXCEPT !.highlighted_mode = options[next_index + 1]]

move_highlight(w, delta) ==
    LET options == selectable_sign_in_options
        current_index == position_or_0(options, w.highlighted_mode)
        next_index == rem_euclid(current_index + delta, Len(options))
    IN  IF Len(options) = 0
        THEN w
        ELSE [w EXCEPT !.highlighted_mode = options[next_index + 1]]

disallow_api_login(w) ==
    schedule_frame(
        Assign([w EXCEPT !.highlighted_mode = "ChatGpt", !.error = ApiKeyDisabledMessage],
               PickMode))

\* ---------------------------------------------------------- API-key entry
IsWhitespace(c) == c = " "

RECURSIVE trim_start(_)
trim_start(s) ==
    IF s # <<>> /\ IsWhitespace(Head(s)) THEN trim_start(Tail(s)) ELSE s

RECURSIVE trim_end(_)
trim_end(s) ==
    IF s # <<>> /\ IsWhitespace(s[Len(s)]) THEN trim_end(SubSeq(s, 1, Len(s) - 1)) ELSE s

\* A submission that takes the buffer as it is, for comparison.
no_trim(s) == s

\* str::trim
trim(s) == trim_end(trim_start(s))

\* A backspace that empties the buffer, for comparison.
pop_all(s) == <<>>

\* String::pop
pop(s) == IF s = <<>> THEN s ELSE SubSeq(s, 1, Len(s) - 1)

\* A buffer the model keeps: at most MaxKeyLen characters.
Fits(w, value) == [w EXCEPT !.ok = @ /\ Len(value) <= MaxKeyLen]

\* An entry that hands the environment's key to the store at once, for
\* comparison.
start_api_key_entry_submitting(w) ==
    IF is_api_login_allowed /\ env_api_key # None
    THEN [w EXCEPT !.fg = [pc |-> "save", snap |-> PickMode, api_key |-> env_api_key]]
    ELSE w

start_api_key_entry(w) ==
    IF ~is_api_login_allowed
    THEN disallow_api_login(w)
    ELSE LET w1 == [w EXCEPT !.error = None]
             prefill_from_env == env_api_key
             st == w1.sign_in_state
         IN  schedule_frame(
                 IF st.tag = "ApiKeyEntry"
                 THEN IF st.value = <<>>
                      THEN IF prefill_from_env # None
                           THEN Modify(w1, ApiKeyEntry(prefill_from_env, TRUE))
                           ELSE Modify(w1, ApiKeyEntry(st.value, FALSE))
                      ELSE w1
                 ELSE Assign(w1, ApiKeyEntry(IF prefill_from_env # None
                                             THEN prefill_from_env ELSE <<>>,
                                             prefill_from_env # None)))

\* A save that leaves the AuthManager's cache as it was, for comparison.
save_api_key_without_reload(w, api_key, res) ==
    schedule_frame(
        IF res = "Ok"
        THEN Assign([w EXCEPT !.error = None, !.login_status = "ApiKey",
                              !.auth_store = "ApiKey"],
                    ApiKeyConfigured)
        ELSE Modify([w EXCEPT !.error = SaveFailedMessage], ApiKeyEntry(api_key, FALSE)))

\* A save whose failure is reported and nothing else, for comparison.
save_api_key_reporting_only(w, api_key, res) ==
    schedule_frame(
        IF res = "Ok"
        THEN Assign(reload([w EXCEPT !.error = None, !.login_status = "ApiKey",
                                      !.auth_store = "ApiKey"]),
                    ApiKeyConfigured)
        ELSE [w EXCEPT !.error = SaveFailedMessage])

\* login_with_api_key answers res.
save_api_key(w, api_key, res) ==
    IF ~is_api_login_allowed
    THEN disallow_api_login(w)
    ELSE schedule_frame(
             IF res = "Ok"
             THEN Assign(reload([w EXCEPT !.error = None, !.login_status = "ApiKey",
                                           !.auth_store = "ApiKey"]),
                         ApiKeyConfigured)
             ELSE LET w1 == [w EXCEPT !.error = SaveFailedMessage]
                      existing == w1.sign_in_state
                  IN  IF existing.tag = "ApiKeyEntry"
                      THEN Modify(w1, ApiKeyEntry(IF existing.value = <<>>
                                                  THEN api_key ELSE existing.value,
                                                  FALSE))
                      ELSE Assign(w1, ApiKeyEntry(api_key, FALSE)))

\* The result is [ret |-> handled, w |-> the record after the call]; an Enter
\* with a key to save leaves the save to the next step (the guard is dropped
\* before save_api_key).
handle_api_key_entry_key_event(w, key) ==
    LET state == w.sign_in_state
        typed == IF state.prepopulated_from_env THEN <<key.c>> ELSE Append(state.value, key.c)
        trimmed == trim(state.value)
    IN  IF state.tag # "ApiKeyEntry"
        THEN [ret |-> FALSE, w |-> w]
        ELSE [ret |-> TRUE,
              w |->
                CASE key.code = "Esc" ->
                       schedule_frame(Assign([w EXCEPT !.error = None], PickMode))
                  [] key.code = "Enter" ->
                       IF trimmed = <<>>
                       THEN schedule_frame([w EXCEPT !.error = ApiKeyEmptyMessage])
                       ELSE [w EXCEPT !.fg = [pc |-> "save", snap |-> PickMode,
                                                  api_key |-> trimmed]]
                  [] key.code = "Backspace" ->
                       schedule_frame(
                           Modify([w EXCEPT !.error = None],
                                  ApiKeyEntry(IF state.prepopulated_from_env
                                              THEN <<>> ELSE pop(state.value),
                                              FALSE)))
                  [] key.code = "Char" /\ key.plain ->
                       schedule_frame(
                           Fits(Modify([w EXCEPT !.error = None], ApiKeyEntry(typed, FALSE)),
                                typed))
                  [] OTHER -> w]

\* A paste that appends to whatever the buffer holds and leaves the prefill
\* flag alone, for comparison.
handle_api_key_entry_paste_appending(w, pasted) ==
    IF w.sign_in_state.tag # "ApiKeyEntry"
    THEN w
    ELSE [w EXCEPT !.sign_in_state.value = @ \o trim(pasted), !.error = None]

handle_api_key_entry_paste(w, pasted) ==
    LET trimmed == trim(pasted)
        state == w.sign_in_state
        value == IF state.prepopulated_from_env THEN trimmed ELSE state.value \o trimmed
    IN  IF trimmed = <<>> \/ state.tag # "ApiKeyEntry"
        THEN w
        ELSE schedule_frame(
                 Fits(Modify([w EXCEPT !.error = None], ApiKeyEntry(value, FALSE)), value))

handle_paste(w, pasted) == handle_api_key_entry_paste(w, pasted)

\* ------------------------------------------------------- ChatGPT sign-in
\* A widget that never takes an existing login for granted, for comparison.
no_existing_chatgpt_login(w) == [ret |-> FALSE, w |-> w]

\* [ret |-> the bool returned, w |-> the record after the call]
handle_existing_chatgpt_login(w) ==
    IF w.login_status = "Chatgpt"
    THEN [ret |-> TRUE, w |-> schedule_frame(Assign(w, ChatGptSuccess))]
    ELSE [ret |-> FALSE, w |-> w]

\* The listener (and task) tokio::spawn gets: the first one not used yet.
Started(w) ==
    Cardinality({l \in Listeners : w.task[l] # "none"})
        + Cardinality({p \in Pollers : w.poller[p] # "none"})
FreeListeners(w) == IF Started(w) < MaxFlows THEN {l \in Listeners : w.task[l] = "none"} ELSE {}
FreePollers(w) == IF Started(w) < MaxFlows THEN {p \in Pollers : w.poller[p] = "none"} ELSE {}
First(S) == CHOOSE x \in S : \A y \in S : x <= y

\* An Err arm that records no error, as the task's failure arm does, for
\* comparison.
login_server_failed_silently(w) == schedule_frame(Assign(w, PickMode))

\* The Err(e) arm of the match on run_login_server.
login_server_failed(w) ==
    schedule_frame([Assign(w, PickMode) EXCEPT !.error = ServerStartError])

\* The Ok(child) arm: the task is spawned with the listener, and the function
\* returns; what the task does are the steps BrowserTask*.
login_server_started(w) ==
    IF FreeListeners(w) = {}
    THEN [w EXCEPT !.ok = FALSE]
    ELSE [w EXCEPT !.task[First(FreeListeners(w))] = "spawned"]

\* run_login_server answers res.
start_chatgpt_login(w, res) ==
    LET existing == handle_existing_chatgpt_login(w)
        w1 == [w EXCEPT !.error = None]
    IN  IF existing.ret
        THEN existing.w
        ELSE IF res = "Ok" THEN login_server_started(w1) ELSE login_server_failed(w1)

\* headless_chatgpt_login::start_headless_chatgpt_login: the state becomes
\* DeviceCodePending with no code yet and the poller's cancel signal, and the
\* poller is spawned.
start_headless_chatgpt_login(w) ==
    IF FreePollers(w) = {}
    THEN [w EXCEPT !.ok = FALSE]
    ELSE LET p == First(FreePollers(w))
         IN  schedule_frame(
                 [Assign(w, ChatGptDeviceCode(p, FALSE)) EXCEPT !.poller[p] = "requesting"])

start_device_code_login(w) ==
    LET existing == handle_existing_chatgpt_login(w)
    IN  IF existing.ret
        THEN existing.w
        ELSE start_headless_chatgpt_login([w EXCEPT !.error = None])

\* A selection that asks no allow-flag before it starts a ChatGPT flow, for
\* comparison.
handle_sign_in_option_unchecked(w, option, res) ==
    CASE option = "ChatGpt" -> start_chatgpt_login(w, res)
      [] option = "DeviceCode" -> start_device_code_login(w)
      [] option = "ApiKey" ->
           IF is_api_login_allowed THEN start_api_key_entry(w) ELSE disallow_api_login(w)

handle_sign_in_option(w, option, res) ==
    CASE option = "ChatGpt" ->
           IF is_chatgpt_login_allowed THEN start_chatgpt_login(w, res) ELSE w
      [] option = "DeviceCode" ->
           IF is_chatgpt_login_allowed THEN start_device_code_login(w) ELSE w
      [] option = "ApiKey" ->
           IF is_api_login_allowed THEN start_api_key_entry(w) ELSE disallow_api_login(w)

\* index is 0-based, as in the source.
select_option_by_index(w, index, res) ==
    LET options == displayed_sign_in_options
    IN  IF index + 1 <= Len(options)
        THEN handle_sign_in_option(w, options[index + 1], res)
        ELSE w

\* Tokio's Notify::notify_one with no waiter registered stores one permit.
\* An Esc that notifies nobody, for comparison.
notify_none(cn, p) == cn

notify_one(cn, p) == [cn EXCEPT ![p] = TRUE]

\* KeyCode::Esc outside the key entry, the write lock held throughout.
handle_esc(w) ==
    LET state == w.sign_in_state
    IN  CASE state.tag = "ChatGptContinueInBrowser" -> schedule_frame(Assign(w, PickMode))
          [] state.tag = "ChatGptDeviceCode" ->
               schedule_frame(
                   Assign([w EXCEPT !.cancel = IF state.id # 0 THEN notify_one(@, state.id)
                                                ELSE @],
                          PickMode))
          [] OTHER -> w

\* KeyCode::Enter outside the key entry, first half: the state is cloned
\* under the read lock.
enter_clone(w) ==
    [w EXCEPT !.fg = [pc |-> "enter", snap |-> w.sign_in_state, api_key |-> <<>>]]

\* Second half: the match on the clone, and the clone is dropped where its
\* scope ends.
enter_match(w, res) ==
    LET snap == w.fg.snap
        w1 == [w EXCEPT !.fg = Idle]
        w2 == CASE snap.tag = "PickMode" -> handle_sign_in_option(w1, w1.highlighted_mode, res)
                [] snap.tag = "ChatGptSuccessMessage" ->
                     Assign(w1, ChatGptSuccess)
                [] OTHER -> w1
    IN  [w2 EXCEPT !.shutdowns = Drop(snap, @)]

\* A handler that navigates and selects before the key entry sees the key,
\* for comparison.
handle_key_event_navigating_first(w, key, res) ==
    CASE key.code = "Up" \/ (key.code = "Char" /\ key.c = "k") -> move_highlight(w, -1)
      [] key.code = "Down" \/ (key.code = "Char" /\ key.c = "j") -> move_highlight(w, 1)
      [] key.code = "Char" /\ key.c = "1" -> select_option_by_index(w, 0, res)
      [] key.code = "Char" /\ key.c = "2" -> select_option_by_index(w, 1, res)
      [] key.code = "Char" /\ key.c = "3" -> select_option_by_index(w, 2, res)
      [] OTHER -> handle_api_key_entry_key_event(w, key).w

handle_key_event(w, key, res) ==
    LET entry == handle_api_key_entry_key_event(w, key)
    IN  IF entry.ret
        THEN entry.w
        ELSE CASE key.code = "Up" \/ (key.code = "Char" /\ key.c = "k") -> move_highlight(w, -1)
               [] key.code = "Down" \/ (key.code = "Char" /\ key.c = "j") -> move_highlight(w, 1)
               [] key.code = "Char" /\ key.c = "1" -> select_option_by_index(w, 0, res)
               [] key.code = "Char" /\ key.c = "2" -> select_option_by_index(w, 1, res)
               [] key.code = "Char" /\ key.c = "3" -> select_option_by_index(w, 2, res)
               [] key.code = "Enter" -> enter_clone(w)
               [] key.code = "Esc" -> handle_esc(w)
               [] OTHER -> w

\* A step that is complete once the browser reported success, for
\* comparison.
get_step_state_counting_message(w) ==
    IF w.sign_in_state.tag \in {"ChatGptSuccessMessage", "ChatGptSuccess", "ApiKeyConfigured"}
    THEN "Complete"
    ELSE "InProgress"

\* StepStateProvider::get_step_state, on a read of the sign-in state.
get_step_state(w) ==
    CASE w.sign_in_state.tag \in {"PickMode", "ApiKeyEntry", "ChatGptContinueInBrowser",
                                  "ChatGptDeviceCode", "ChatGptSuccessMessage"} -> "InProgress"
      [] w.sign_in_state.tag \in {"ChatGptSuccess", "ApiKeyConfigured"} -> "Complete"

\* ------------------------------------------------------ background tasks
\* The spawned task's first write: the state becomes ChatGptContinueInBrowser
\* with the listener's cancel handle.
task_set_pending(w, l) ==
    schedule_frame([Assign(w, ChatGptContinueInBrowser(l)) EXCEPT !.task[l] = "awaiting"])

\* A task that goes on to its success write with no reload, for comparison.
task_resolved_without_reload(w, l) ==
    [w EXCEPT !.task[l] = "reloaded", !.auth_store = "Chatgpt"]

\* block_until_done resolved Ok: the listener has stored the credentials, and
\* the task reloads the AuthManager.
task_reload(w, l) ==
    reload([w EXCEPT !.task[l] = "reloaded", !.auth_store = "Chatgpt", !.reloaded = @ \cup {l}])

\* A task that writes ChatGptSuccess itself, for comparison.
task_set_authenticated(w, l) ==
    Release(schedule_frame([Assign(w, ChatGptSuccess) EXCEPT !.task[l] = "succeeded"]))

\* ... and then writes ChatGptSuccessMessage and ends.
task_set_success(w, l) ==
    Release(schedule_frame([Assign(w, ChatGptSuccessMessage) EXCEPT !.task[l] = "succeeded"]))

\* block_until_done resolved with an error: the task writes PickMode and ends.
task_set_pick_mode(w, l) ==
    Release(schedule_frame([Assign(w, PickMode) EXCEPT !.task[l] = "failed"]))

\* block_until_done resolved with an error; the write of PickMode is next.
task_erred(w, l) == [w EXCEPT !.task[l] = "erred"]

\* What block_until_done can resolve to: an error once the listener was told
\* to shut down, either result while it runs.
Resolutions(w, l) == IF w.shutdowns[l] > 0 THEN {"Err"} ELSE {"Ok", "Err"}

\* The poller received the one-time code (res = Ok) or its first request
\* failed; a poller that finds its cancellation signalled ends.  A poller
\* writes only while the state is still its own DeviceCodePending.
poller_code(w, p, res) ==
    LET mine == w.sign_in_state.tag = "ChatGptDeviceCode" /\ w.sign_in_state.id = p
    IN  IF w.cancel[p]
            THEN Release([w EXCEPT !.poller[p] = "done"])
            ELSE IF res = "Ok"
                 THEN [(IF mine THEN schedule_frame(Modify(w, ChatGptDeviceCode(p, TRUE)))
                        ELSE w)
                       EXCEPT !.poller[p] = "polling"]
                 ELSE Release([(IF mine
                                THEN schedule_frame(
                                         [Assign(w, PickMode) EXCEPT !.error = DeviceCodeError])
                                ELSE w)
                               EXCEPT !.poller[p] = "done"])

\* A poll iteration that ends the polling: cancellation observed at its top,
\* else success (credentials stored, cache reloaded, the browser flow's
\* success state) or expiry/error (PickMode with an error).
poller_finish(w, p, res) ==
    LET mine == w.sign_in_state.tag = "ChatGptDeviceCode" /\ w.sign_in_state.id = p
        w1 == [w EXCEPT !.poller[p] = "done"]
    IN  Release(IF w.cancel[p]
                    THEN w1
                    ELSE IF res = "Ok"
                         THEN LET w2 == reload([w1 EXCEPT !.auth_store = "Chatgpt"])
                              IN  IF mine
                                  THEN schedule_frame(Assign(w2, ChatGptSuccessMessage))
                                  ELSE w2
                         ELSE IF mine
                              THEN schedule_frame(
                                       [Assign(w1, PickMode) EXCEPT !.error = DeviceCodeError])
                              ELSE w1)

\* RwLock::write called by task l: the guard is granted when nobody holds
\* the lock (free), and the task blocks otherwise.
write(w, l, free) ==
    IF free
    THEN [w EXCEPT !.lock.writer = l, !.lock.waiting = @ \ {l}]
    ELSE [w EXCEPT !.lock.waiting = @ \cup {l}]

\* A guard that lives on after the statement, for comparison.
keep_guard(w) == w

\* The write guard, a temporary of the assignment, is dropped where the
\* statement ends.
drop_guard(w) == [w EXCEPT !.lock.writer = 0]

\* The statement *sign_in_state.write().unwrap() = ... of task l, the guard
\* granted: the write the task is at, and the guard dropped.
task_write(w, l) ==
    drop_guard(CASE w.task[l] = "spawned" -> task_set_pending(w, l)
                 [] w.task[l] = "reloaded" -> task_set_success(w, l)
                 [] w.task[l] = "erred" -> task_set_pick_mode(w, l))

\* The owner drops the widget: its Arc goes, the tasks keep theirs.
teardown(w) == Release([w EXCEPT !.widget_alive = FALSE])

\* ---------------------------------------------------------------- actions
Results == {"Ok", "Err"}

\* ------------------------------------------------------------------- i18n
\* Option<T> of the values read from outside: nothing, or one value.
Absent == <<>>
Some(x) == <<x>>

Upper == <<"A", "B", "C", "D", "E", "F", "G", "H", "I", "J", "K", "L", "M",
           "N", "O", "P", "Q", "R", "S", "T", "U", "V", "W", "X", "Y", "Z">>
Lower == <<"a", "b", "c", "d", "e", "f", "g", "h", "i", "j", "k", "l", "m",
           "n", "o", "p", "q", "r", "s", "t", "u", "v", "w", "x", "y", "z">>

\* u8::to_ascii_lowercase
ascii_lower(c) ==
    IF \E i \in DOMAIN Upper : Upper[i] = c
    THEN Lower[CHOOSE i \in DOMAIN Upper : Upper[i] = c]
    ELSE c

\* A comparison of the value as it was written, for comparison.
as_written(s) == s

\* str::to_ascii_lowercase
to_ascii_lowercase(s) == [i \in DOMAIN s |-> ascii_lower(s[i])]

\* str::contains
contains(s, pat) ==
    \E i \in 0..(Len(s) - Len(pat)) : SubSeq(s, i + 1, i + Len(pat)) = pat

\* str::starts_with
starts_with(s, pat) == Len(s) >= Len(pat) /\ SubSeq(s, 1, Len(pat)) = pat

LocaleKeys == <<"LC_ALL", "LC_MESSAGES", "LANG", "LANGUAGE">>

EnvNames == {"CODEX_UI_LANG"} \cup {LocaleKeys[i] : i \in DOMAIN LocaleKeys}

ZhCodes ==
    {<<"z", "h">>, <<"z", "h", "-", "c", "n">>, <<"z", "h", "_", "c", "n">>,
     <<"z", "h", "-", "h", "a", "n", "s">>, <<"z", "h", "_", "h", "a", "n", "s">>}

EnCodes == {<<"e", "n">>, <<"e", "n", "-", "u", "s">>, <<"e", "n", "_", "u", "s">>}

\* std::env::var(key).ok()
env_var(key) == environ[key]

\* GetUserDefaultLocaleName: the length written, the terminating NUL
\* included, and 0 when the call fails.
GetUserDefaultLocaleName ==
    IF platform.locale_name = Absent THEN 0 ELSE Len(platform.locale_name[1]) + 1

\* windows_user_locale_is_zh, the one the build has: that of a Windows build
\* outside tests, or the stub.
windows_user_locale_is_zh ==
    IF platform.windows
    THEN LET len == GetUserDefaultLocaleName
         IN  IF len <= 1
             THEN FALSE
             ELSE LET locale ==
                          to_ascii_lowercase(SubSeq(platform.locale_name[1], 1, len - 1))
                  IN  starts_with(locale, <<"z", "h">>)
    ELSE FALSE

use_zh_cn ==
    LET value == env_var("CODEX_UI_LANG")
        explicit == IF value = Absent THEN Absent
                    ELSE Some(to_ascii_lowercase(trim(value[1])))
    IN  IF explicit # Absent /\ explicit[1] \in ZhCodes
        THEN TRUE
        ELSE IF explicit # Absent /\ explicit[1] \in EnCodes
        THEN FALSE
        ELSE \/ \E i \in DOMAIN LocaleKeys :
                    /\ env_var(LocaleKeys[i]) # Absent
                    /\ contains(to_ascii_lowercase(env_var(LocaleKeys[i])[1]), <<"z", "h">>)
             \/ windows_user_locale_is_zh

tr(en, zh_cn) == IF use_zh_cn THEN zh_cn ELSE en

\* ---------------------------------------------------------- announcements
\* The version the build embeds (CARGO_PKG_VERSION of a local build).
CODEX_CLI_VERSION == "0.0.0"

\* One [[announcements]] table of the document.  content is typed as the
\* document types it; the other keys are strings or absent.
Raw(type, content, from_date, to_date, version_regex, target_app) ==
    [content |-> [type |-> type, value |-> content], from_date |-> from_date,
     to_date |-> to_date, version_regex |-> version_regex, target_app |-> target_app]

\* toml::from_str::<AnnouncementTipDocument>: the tables, when every content
\* is a string.
from_str_document(doc) ==
    IF \A i \in DOMAIN doc : doc[i].content.type = "string" THEN Some(doc) ELSE Absent

\* toml::from_str::<Vec<AnnouncementTipRaw>>: the root of a document is a
\* table, never an array.
from_str_vec(doc) == Absent

\* NaiveDate::parse_from_str(date, "%Y-%m-%d"), as the day of January 2000.
parse_from_str(date) ==
    CASE date = "2000-01-01" -> Some(1)
      [] date = "2000-01-03" -> Some(3)
      [] OTHER -> Absent

\* Regex::new: the pattern compiles.
Regex_new(pattern) == IF pattern = "(" THEN Absent ELSE Some(pattern)

\* Regex::is_match
is_match(regex, version) ==
    CASE regex = ".*" -> TRUE
      [] OTHER -> FALSE

\* str::to_lowercase, of ASCII text
to_lowercase(s) == [i \in DOMAIN s |-> ascii_lower(s[i])]

\* AnnouncementTip::from_raw
from_raw(raw) ==
    LET content == trim(raw.content.value)
        from_date == IF raw.from_date = Absent THEN Some(Absent)
                     ELSE IF parse_from_str(raw.from_date[1]) = Absent THEN Absent
                     ELSE Some(parse_from_str(raw.from_date[1]))
        to_date == IF raw.to_date = Absent THEN Some(Absent)
                   ELSE IF parse_from_str(raw.to_date[1]) = Absent THEN Absent
                   ELSE Some(parse_from_str(raw.to_date[1]))
        version_regex == IF raw.version_regex = Absent THEN Some(Absent)
                         ELSE IF Regex_new(raw.version_regex[1]) = Absent THEN Absent
                         ELSE Some(Regex_new(raw.version_regex[1]))
    IN  IF content = <<>> THEN Absent
        ELSE IF from_date = Absent THEN Absent
        ELSE IF to_date = Absent THEN Absent
        ELSE IF version_regex = Absent THEN Absent
        ELSE Some([content |-> content,
                   from_date |-> from_date[1],
                   to_date |-> to_date[1],
                   version_regex |-> version_regex[1],
                   target_app |-> to_lowercase(IF raw.target_app = Absent
                                               THEN <<"c", "l", "i">>
                                               ELSE raw.target_app[1])])

\* AnnouncementTip::version_matches
version_matches(tip, version) ==
    tip.version_regex = Absent \/ is_match(tip.version_regex[1], version)

\* A window that still holds on its to_date, for comparison.
date_matches_through_to_date(tip, day) ==
    IF tip.from_date # Absent /\ day < tip.from_date[1] THEN FALSE
    ELSE IF tip.to_date # Absent /\ day > tip.to_date[1] THEN FALSE
    ELSE TRUE

\* AnnouncementTip::date_matches
date_matches(tip, day) ==
    IF tip.from_date # Absent /\ day < tip.from_date[1] THEN FALSE
    ELSE IF tip.to_date # Absent /\ day >= tip.to_date[1] THEN FALSE
    ELSE TRUE

\* The loop of parse_announcement_tip_toml over the announcements from the
\* i-th on.
RECURSIVE scan_announcements(_, _, _)
scan_announcements(announcements, i, latest_match) ==
    IF i > Len(announcements)
    THEN latest_match
    ELSE LET tip == from_raw(announcements[i])
         IN  IF tip = Absent
             THEN scan_announcements(announcements, i + 1, latest_match)
             ELSE IF /\ version_matches(tip[1], CODEX_CLI_VERSION)
                     /\ date_matches(tip[1], today)
                     /\ tip[1].target_app = <<"c", "l", "i">>
             THEN scan_announcements(announcements, i + 1, Some(tip[1].content))
             ELSE scan_announcements(announcements, i + 1, latest_match)

parse_announcement_tip_toml(doc) ==
    LET announcements == IF from_str_document(doc) # Absent
                         THEN from_str_document(doc)
                         ELSE from_str_vec(doc)
    IN  IF announcements = Absent
        THEN Absent
        ELSE scan_announcements(announcements[1], 1, Absent)

\* No language is asked for, and tr was not called.
NoLanguage ==
    /\ environ = [k \in EnvNames |-> Absent]
    /\ platform = [windows |-> FALSE, locale_name |-> Absent]
    /\ text = None

\* No announcement was fetched.
NoAnnouncements ==
    /\ document = <<>>
    /\ today = 0
    /\ announcement_tip = [called |-> FALSE, value |-> Absent]

\* Nothing of the language and the announcements is in view.
OutOfView == NoLanguage /\ NoAnnouncements

\* n is the record after an operation: the step is taken if it stays within
\* the model's bounds.  A listener's shutdown count is kept up to 2: any
\* count above one is kept as 2.
Commit(n) ==
    /\ n.ok
    /\ sign_in_state' = n.sign_in_state
    /\ highlighted_mode' = n.highlighted_mode
    /\ error' = n.error
    /\ login_status' = n.login_status
    /\ fg' = n.fg
    /\ widget_alive' = n.widget_alive
    /\ task' = n.task
    /\ shutdowns' = [l \in Listeners |-> IF n.shutdowns[l] > 1 THEN 2 ELSE n.shutdowns[l]]
    /\ poller' = n.poller
    /\ cancel' = n.cancel
    /\ auth_store' = n.auth_store
    /\ auth_cache' = n.auth_cache
    /\ reloaded' = n.reloaded
    /\ unframed' = n.unframed
    /\ lock' = n.lock
    /\ UNCHANGED <<forced_login_method, env_api_key, render>>
    /\ UNCHANGED glue

\* The widget as constructed, but for the environment.
Constructed ==
    /\ sign_in_state = PickMode
    /\ highlighted_mode = "ChatGpt"
    /\ error = None
    /\ login_status \in {"NotAuthenticated", "Chatgpt"}
    /\ forced_login_method \in ForcedLoginMethods
    /\ fg = Idle
    /\ widget_alive = TRUE
    /\ task = [l \in Listeners |-> "none"]
    /\ shutdowns = [l \in Listeners |-> 0]
    /\ auth_store = IF login_status = "Chatgpt" THEN "Chatgpt" ELSE None
    /\ auth_cache = auth_store
    /\ reloaded = {}
    /\ unframed = FALSE
    /\ lock = [writer |-> 0, waiting |-> {}]
    /\ render = [pc |-> "idle", tag |-> "PickMode"]
    /\ poller = [p \in Pollers |-> "none"]
    /\ cancel = [p \in Pollers |-> FALSE]

Init == Constructed /\ env_api_key = <<"1">> /\ OutOfView

\* The characters of a key typed in a session with background tasks.
Digits == {"1", "2", "3"}

\* The key entry's buffer of record n holds at most cap characters, all of
\* them among chars.
Within(n, cap, chars) ==
    n.sign_in_state.tag = "ApiKeyEntry"
        => /\ Len(n.sign_in_state.value) <= cap
           /\ \A i \in 1..Len(n.sign_in_state.value) : n.sign_in_state.value[i] \in chars

\* The answers run_login_server can give to the key's handler: the number
\* keys alone can reach it within handle_key_event's first step.
Answers(key) == IF key.code = "Char" /\ key.c \in {"1", "2", "3"} THEN Results ELSE {"Ok"}

KeyEventUpTo(cap, chars) ==
    /\ widget_alive /\ fg.pc = "idle"
    /\ \E key \in Keys : \E res \in Answers(key) :
           LET n == handle_key_event(W, key, res) IN Within(n, cap, chars) /\ Commit(n)

\* Outside the key entry a paste returns at once.
PasteUpTo(cap, chars) ==
    /\ widget_alive /\ fg.pc = "idle"
    /\ sign_in_state.tag = "ApiKeyEntry"
    /\ \E pasted \in Texts(cap) :
           LET n == handle_paste(W, pasted) IN Within(n, cap, chars) /\ Commit(n)

KeyEvent == KeyEventUpTo(MaxLen, Digits)

Paste == PasteUpTo(MaxLen, Digits)

EnterMatch ==
    /\ fg.pc = "enter"
    /\ \E res \in Results : Commit(enter_match(W, res))

SaveApiKey ==
    /\ fg.pc = "save"
    /\ \E res \in Results : Commit(save_api_key([W EXCEPT !.fg = Idle], fg.api_key, res))

BrowserTaskPending ==
    \E l \in Listeners : task[l] = "spawned" /\ Commit(task_set_pending(W, l))

BrowserTaskResolved ==
    \E l \in Listeners :
        /\ task[l] = "awaiting"
        /\ \E r \in Resolutions(W, l) :
               Commit(IF r = "Ok" THEN task_reload(W, l) ELSE task_set_pick_mode(W, l))

BrowserTaskSuccess ==
    \E l \in Listeners : task[l] = "reloaded" /\ Commit(task_set_success(W, l))

PollerCode ==
    \E p \in Pollers, res \in Results : poller[p] = "requesting" /\ Commit(poller_code(W, p, res))

PollerFinish ==
    \E p \in Pollers, res \in Results : poller[p] = "polling" /\ Commit(poller_finish(W, p, res))

Teardown ==
    /\ widget_alive /\ fg.pc = "idle"
    /\ Commit(teardown(W))

\* A session whose widget lives on.
Next ==
    \/ KeyEvent
    \/ Paste
    \/ EnterMatch
    \/ SaveApiKey
    \/ BrowserTaskPending
    \/ BrowserTaskResolved
    \/ BrowserTaskSuccess
    \/ PollerCode
    \/ PollerFinish

Spec == Init /\ [][Next]_vars

\* A session that its owner may end at any key boundary.
NextTeardown == Next \/ Teardown

SpecTeardown == Init /\ [][NextTeardown]_vars

\* The browser flow with the lock in view: a task's write is the call of
\* write() and, once the guard is granted, the assignment; the render path
\* takes its read guards one by one.  std leaves the lock's priority policy
\* to the platform; the policy here is the one of its futex and queue
\* implementations, which let no reader in while a writer waits.
BrowserKeys == {Key("Char", "1", TRUE), Key("Enter", "", TRUE), Key("Esc", "", TRUE)}

\* The read guards the render path holds.
Readers == CASE render.pc = "idle" -> 0
             [] render.pc \in {"outer", "inner_wait"} -> 1
             [] render.pc = "inner" -> 2

LockFree == lock.writer = 0 /\ Readers = 0

\* The foreground thread handles a key when it is not rendering, and its
\* own lock calls wait for a task's guard to go.
LockedKeyEvent ==
    /\ widget_alive /\ fg.pc = "idle" /\ LockFree
    /\ \E key \in BrowserKeys : \E res \in Answers(key) :
           Commit(handle_key_event(W, key, res))

LockedEnterMatch ==
    /\ fg.pc = "enter" /\ LockFree
    /\ \E res \in Results : Commit(enter_match(W, res))

TaskResolved ==
    \E l \in Listeners :
        /\ task[l] = "awaiting"
        /\ \E r \in Resolutions(W, l) :
               Commit(IF r = "Ok" THEN task_reload(W, l) ELSE task_erred(W, l))

TaskWriteCalled ==
    \E l \in Listeners :
        /\ task[l] \in {"spawned", "reloaded", "erred"}
        /\ lock.writer # l /\ l \notin lock.waiting
        /\ Commit(write(W, l, LockFree))

TaskWriteGranted ==
    \E l \in lock.waiting : LockFree /\ Commit(write(W, l, TRUE))

TaskWrite ==
    \E l \in Listeners : lock.writer = l /\ Commit(task_write(W, l))

RenderStep(next) ==
    /\ render' = next
    /\ UNCHANGED <<sign_in_state, highlighted_mode, error, login_status, forced_login_method,
                   env_api_key, fg, widget_alive, task, shutdowns, poller, cancel,
                   auth_store, auth_cache, reloaded, unframed, lock>>
    /\ UNCHANGED glue

\* render_ref takes the read guard and matches the state under it.
RenderRef ==
    /\ widget_alive /\ fg.pc = "idle" /\ render.pc = "idle"
    /\ lock.writer = 0 /\ lock.waiting = {}
    /\ RenderStep([pc |-> "outer", tag |-> sign_in_state.tag])

\* render_continue_in_browser, called under that guard, calls read() again.
RenderContinueInBrowser ==
    /\ render.pc = "outer" /\ render.tag = "ChatGptContinueInBrowser"
    /\ RenderStep([render EXCEPT !.pc = "inner_wait"])

RenderReadGranted ==
    /\ render.pc = "inner_wait" /\ lock.waiting = {}
    /\ RenderStep([render EXCEPT !.pc = "inner"])

\* The guards are dropped where render_ref returns.
RenderReturn ==
    /\ \/ render.pc = "outer" /\ render.tag # "ChatGptContinueInBrowser"
       \/ render.pc = "inner"
    /\ RenderStep([render EXCEPT !.pc = "idle"])

NextLock ==
    \/ LockedKeyEvent
    \/ LockedEnterMatch
    \/ TaskResolved
    \/ TaskWriteCalled
    \/ TaskWriteGranted
    \/ TaskWrite
    \/ RenderRef
    \/ RenderContinueInBrowser
    \/ RenderReadGranted
    \/ RenderReturn

SpecLock == Init /\ [][NextLock]_vars

\* The tokio runtime runs every task that can take a step, and the render
\* path goes on whenever it is not blocked.
FairLock ==
    /\ WF_vars(TaskWriteCalled) /\ WF_vars(TaskWriteGranted) /\ WF_vars(TaskWrite)
    /\ WF_vars(RenderContinueInBrowser) /\ WF_vars(RenderReadGranted)
    /\ WF_vars(RenderReturn)
    /\ \A l \in Listeners :
           WF_vars(task[l] = "awaiting" /\ shutdowns[l] > 0 /\ Commit(task_erred(W, l)))

SpecLockFair == SpecLock /\ FairLock

\* Sessions without background tasks, with the longer buffers and with or
\* without a key in the environment.
EnvKeys == {None, <<"1">>}

InitDirect == Constructed /\ env_api_key \in EnvKeys /\ OutOfView

KeyEventLong == KeyEventUpTo(MaxKeyLen, Chars)

PasteLong == PasteUpTo(MaxKeyLen, Chars)

\* The widget's methods called directly, as the unit tests of the module call
\* them.
Deltas == (0 - MaxDelta)..MaxDelta

CallMoveHighlight ==
    /\ widget_alive /\ fg.pc = "idle"
    /\ \E delta \in Deltas : Commit(move_highlight(W, delta))

CallHandleSignInOption ==
    /\ widget_alive /\ fg.pc = "idle"
    /\ \E option \in SignInOptions, res \in Results : Commit(handle_sign_in_option(W, option, res))

CallStartApiKeyEntry ==
    /\ widget_alive /\ fg.pc = "idle"
    /\ Commit(start_api_key_entry(W))

CallSaveApiKey ==
    /\ widget_alive /\ fg.pc = "idle"
    /\ \E api_key \in Texts(MaxKeyLen), res \in Results : Commit(save_api_key(W, api_key, res))

\* A widget driven by keys and by direct calls, with no runtime that runs
\* the spawned tasks.
NextDirect ==
    \/ KeyEventLong
    \/ PasteLong
    \/ EnterMatch
    \/ SaveApiKey
    \/ CallMoveHighlight
    \/ CallHandleSignInOption
    \/ CallStartApiKeyEntry
    \/ CallSaveApiKey

SpecDirect == InitDirect /\ [][NextDirect]_vars

\* Sessions of key events and pastes alone, in which no background task takes
\* a step.
InitEntry == InitDirect

NextEntry ==
    \/ KeyEventLong
    \/ PasteLong
    \/ EnterMatch
    \/ SaveApiKey

SpecEntry == InitEntry /\ [][NextEntry]_vars

\* The variables of the sign-in widget.
widget ==
    <<sign_in_state, highlighted_mode, error, login_status, forced_login_method,
      env_api_key, fg, widget_alive, task, shutdowns, poller, cancel, auth_store,
      auth_cache, reloaded, unframed, lock, render>>

\* The widget of a first run, which nothing touches.
FirstRun ==
    /\ Constructed /\ env_api_key = None
    /\ login_status = "NotAuthenticated" /\ forced_login_method = None

\* tr under every environment: CODEX_UI_LANG and the four locale variables,
\* each absent or set, on every kind of build.
UiLangValues ==
    {<<"e", "n">>, <<" ", "E", "N", "-", "u", "s", " ">>, <<"e", "n", "_", "U", "S">>,
     <<"z", "h">>, <<"Z", "H", "-", "c", "n">>, <<" ", "z", "h", "_", "C", "N">>,
     <<"Z", "h", "-", "H", "a", "n", "s">>, <<"z", "h", "_", "h", "a", "n", "s">>,
     <<"f", "r">>, <<>>, <<"e", "n", "g", "l", "i", "s", "h">>, <<"z", "h", "x">>}

LocaleValues ==
    {<<"z", "h", "_", "C", "N">>, <<"e", "n", "_", "Z", "H">>, <<"h", "z">>, <<"C">>}

LocaleNames ==
    {<<>>, <<"z", "h", "-", "C", "N">>, <<"Z", "H", "-", "t", "w">>,
     <<"e", "n", "-", "U", "S">>}

Platforms ==
    {[windows |-> FALSE, locale_name |-> Absent],
     [windows |-> FALSE, locale_name |-> Some(<<"z", "h", "-", "C", "N">>)],
     [windows |-> TRUE, locale_name |-> Absent]}
    \cup {[windows |-> TRUE, locale_name |-> Some(n)] : n \in LocaleNames}

InitLang ==
    /\ FirstRun /\ NoAnnouncements
    /\ environ \in [EnvNames -> {Absent} \cup {Some(v) : v \in UiLangValues \cup LocaleValues}]
    /\ environ["CODEX_UI_LANG"] \in {Absent} \cup {Some(v) : v \in UiLangValues}
    /\ \A i \in DOMAIN LocaleKeys :
           environ[LocaleKeys[i]] \in {Absent} \cup {Some(v) : v \in LocaleValues}
    /\ platform \in Platforms
    /\ text = None

\* tr("Hello", ...) is called.
Tr ==
    /\ text' = tr("Hello", "NiHao")
    /\ UNCHANGED <<widget, environ, platform, document, today, announcement_tip>>

NextLang == Tr

SpecLang == InitLang /\ [][NextLang]_vars

\* parse_announcement_tip_toml over every document of up to MaxTips
\* announcements, on every day up to MaxDay.
Announcements ==
    {Raw("string", <<"a">>, Absent, Absent, Absent, Absent),
     Raw("string", <<" ", "b", " ">>, Absent, Absent, Absent, Absent),
     Raw("string", <<" ">>, Absent, Absent, Absent, Absent),
     Raw("integer", <<>>, Absent, Absent, Absent, Absent),
     Raw("string", <<"c">>, Some("2000-01-03"), Absent, Absent, Absent),
     Raw("string", <<"d">>, Absent, Some("2000-01-03"), Absent, Absent),
     Raw("string", <<"e">>, Some("soon"), Absent, Absent, Absent),
     Raw("string", <<"f">>, Some("2000-01-01"), Some("2000-01-03"), Absent, Absent),
     Raw("string", <<"g">>, Absent, Absent, Some(".*"), Some(<<"c", "l", "i">>)),
     Raw("string", <<"h">>, Absent, Absent, Some("invalid_version_name"), Absent),
     Raw("string", <<"i">>, Absent, Absent, Some("("), Absent),
     Raw("string", <<"j">>, Absent, Absent, Absent, Some(<<"C", "L", "I">>)),
     Raw("string", <<"k">>, Absent, Absent, Absent, Some(<<"v", "s", "c", "e">>)),
     Raw("string", <<"l">>, Absent, Some("never"), Absent, Absent)}

InitTips ==
    /\ FirstRun /\ NoLanguage
    /\ document \in UNION {[1..n -> Announcements] : n \in 0..MaxTips}
    /\ today \in 0..MaxDay
    /\ announcement_tip = [called |-> FALSE, value |-> Absent]

ParseAnnouncementTip ==
    /\ announcement_tip' = [called |-> TRUE, value |-> parse_announcement_tip_toml(document)]
    /\ UNCHANGED <<widget, environ, platform, text, document, today>>

NextTips == ParseAnnouncementTip

SpecTips == InitTips /\ [][NextTips]_vars

\* ------------------------------------------------------------- properties
Pending == {"ChatGptContinueInBrowser", "ChatGptDeviceCode"}
EscKey == Key("Esc", "", TRUE)

\* C1: in every reachable state a background login task is alive exactly when
\* the sign-in state is the browser flow's or the device-code flow's pending
\* state.
C1_TaskAliveIffPending ==
    (LiveTasks(W) # {} \/ LivePollers(W) # {}) <=> sign_in_state.tag \in Pending

\* C2: when a listener's task ends after the foreground has moved the state
\* away from that listener's pending state, the task's completion leaves the
\* sign-in state as it is.
C2_StaleCompletionIsNoOp ==
    [][\A l \in Listeners :
          (/\ task[l] \in {"awaiting", "reloaded"}
           /\ task'[l] \in {"succeeded", "failed"}
           /\ sign_in_state # ChatGptContinueInBrowser(l))
          => sign_in_state' = sign_in_state]_vars

\* C3: Esc in a listener's pending state invokes that listener's shutdown
\* exactly once and no other's; a second Esc right after it, and the task's
\* report of the ended flow after that, invoke none.
C3_CancelShutsDownOnce ==
    \A l \in Listeners :
        (fg.pc = "idle" /\ sign_in_state = ChatGptContinueInBrowser(l)) =>
            LET once  == handle_key_event(W, EscKey, "Ok")
                twice == handle_key_event(once, EscKey, "Ok")
                after == IF task[l] = "reloaded" THEN task_set_success(twice, l)
                                                 ELSE task_set_pick_mode(twice, l)
            IN  /\ once.sign_in_state = PickMode
                /\ once.shutdowns = [shutdowns EXCEPT ![l] = @ + 1]
                /\ twice.shutdowns = once.shutdowns
                /\ after.shutdowns = once.shutdowns

\* A cancelled listener whose task has not reported yet.
C3_Cancelled ==
    \E l \in Listeners :
        /\ task[l] = "awaiting" /\ shutdowns[l] = 1
        /\ sign_in_state = PickMode /\ error = None /\ fg.pc = "idle"
        /\ \A o \in Listeners \ {l} : task[o] = "none"
        /\ \A p \in Pollers : poller[p] = "none"

\* C4: a listener's shutdown has been invoked at least once as soon as its
\* pending state has been replaced, and never more than once, drops of the
\* state's copies included.
C4_ShutdownOncePerListener ==
    \A l \in Listeners :
        /\ shutdowns[l] <= 1
        /\ (task[l] \in {"awaiting", "reloaded", "succeeded", "failed"}
            /\ sign_in_state # ChatGptContinueInBrowser(l)) => shutdowns[l] >= 1

\* C5: once the widget is gone, every listener still awaited has been told to
\* shut down and every poller still running has been told to cancel.
C5_TeardownCancels ==
    ~widget_alive =>
        /\ \A l \in Listeners : task[l] = "awaiting" => shutdowns[l] >= 1
        /\ \A p \in LivePollers(W) : cancel[p]

\* C6: at most one background login task, listener's or poller's, is alive at
\* any instant.
C6_AtMostOneTask ==
    Cardinality(LiveTasks(W)) + Cardinality(LivePollers(W)) <= 1

\* C7: no key event is handled between the listener's successful start and the
\* state's becoming that listener's pending state.
C7_PendingBeforeNextKey ==
    [][KeyEvent => \A l \in Listeners : task[l] # "spawned"]_vars

NoFlowStarted ==
    /\ \A l \in Listeners : task[l] = "none"
    /\ \A p \in Pollers : poller[p] = "none"

\* C8: with a ChatGPT login_status, starting the browser flow or the
\* device-code flow sets the state to ChatGptSuccess and does nothing else: no
\* run_login_server (neither a task of its Ok nor the error of its Err), no
\* poller.
C8_ExistingLoginShortCircuits ==
    login_status = "Chatgpt" =>
        /\ \A res \in Results :
               start_chatgpt_login(W, res) = schedule_frame(Assign(W, ChatGptSuccess))
        /\ start_device_code_login(W) = schedule_frame(Assign(W, ChatGptSuccess))

\* Authenticated by the short circuit, with no flow ever started.
C8_ShortCircuited ==
    /\ login_status = "Chatgpt" /\ sign_in_state = ChatGptSuccess
    /\ NoFlowStarted /\ error = None /\ fg.pc = "idle"

\* C9: once a listener's flow has ended in success, no further listener is
\* started.
C9_NoSecondListener ==
    [][(\E l \in Listeners : task[l] = "succeeded")
       => \A o \in Listeners : task[o] = "none" => task'[o] = "none"]_vars

\* C10: when run_login_server fails, the state is PickMode, the error is
\* recorded and no task is spawned.
C10_StartFailure ==
    login_status # "Chatgpt" =>
        LET n == start_chatgpt_login(W, "Err")
        IN  /\ n.sign_in_state = PickMode
            /\ n.error = ServerStartError
            /\ n.task = task /\ n.poller = poller

\* The listener could not be started, and nothing runs.
C10_StartFailed ==
    /\ sign_in_state = PickMode /\ error = ServerStartError
    /\ NoFlowStarted /\ fg.pc = "idle"

EnterKey == Key("Enter", "", TRUE)
\* The number keys, by the index they select.
Chars1to3 == <<"1", "2", "3">>

\* C11: whenever a listener's completion has produced ChatGptSuccessMessage,
\* that listener's task has called auth_manager.reload() before.
C11_ReloadBeforeSuccess ==
    \A l \in Listeners : task[l] = "succeeded" => l \in reloaded

\* A listener's success is on display.
C11_Succeeded ==
    \E l \in Listeners :
        task[l] = "succeeded" /\ l \in reloaded /\ sign_in_state = ChatGptSuccessMessage

\* C12: when a listener nobody told to shut down resolves with a failure, the
\* state becomes PickMode and an error message is set.
C12_RemoteFailureReported ==
    [][\A l \in Listeners :
          (task[l] = "awaiting" /\ task'[l] = "failed" /\ shutdowns[l] = 0)
          => (sign_in_state' = PickMode /\ error' # None)]_vars

\* What the cancelled background task of a pending state st does to record n
\* when it reports: the listener's task makes its write, the poller ends.
Reported(n, st) ==
    IF st.tag = "ChatGptContinueInBrowser"
    THEN IF n.task[st.id] = "reloaded" THEN task_set_success(n, st.id)
                                       ELSE task_set_pick_mode(n, st.id)
    ELSE IF n.poller[st.id] = "requesting" THEN poller_code(n, st.id, "Ok")
                                           ELSE poller_finish(n, st.id, "Ok")

\* C13: Esc in a pending state gives PickMode with no error, and the error is
\* still empty once the cancelled task has reported.
C13_CancelIsSilent ==
    (fg.pc = "idle" /\ sign_in_state.tag \in Pending) =>
        LET once == handle_key_event(W, EscKey, "Ok")
        IN  /\ once.sign_in_state = PickMode
            /\ once.error = None
            /\ Reported(once, sign_in_state).error = None

\* C14: Esc in a state other than the two pending ones changes neither the
\* sign-in state (the entry buffer with it) nor the error.
C14_EscElsewhereIsNoOp ==
    (fg.pc = "idle" /\ sign_in_state.tag \notin Pending) =>
        LET n == handle_key_event(W, EscKey, "Ok")
        IN  n.sign_in_state = sign_in_state /\ n.error = error

\* C15: Enter in a state other than PickMode, ChatGptSuccessMessage and the
\* key entry changes nothing: the state stays, no listener is told to shut
\* down, no poller is signalled.
C15_EnterElsewhereIsNoOp ==
    (fg.pc = "idle"
     /\ sign_in_state.tag \notin {"PickMode", "ChatGptSuccessMessage", "ApiKeyEntry"}) =>
        \A res \in Results :
            LET n == enter_match(handle_key_event(W, EnterKey, res), res)
            IN  /\ n.sign_in_state = sign_in_state
                /\ n.shutdowns = shutdowns
                /\ n.cancel = cancel

\* The options a forced-login configuration disallows.
DisallowedOptions ==
    CASE forced_login_method = "Api" -> {"ChatGpt", "DeviceCode"}
      [] forced_login_method = "Chatgpt" -> {"ApiKey"}
      [] OTHER -> {}

Range(seq) == {seq[i] : i \in 1..Len(seq)}

\* Record n has started nothing that record W had not: no listener, no
\* poller, no write to the credential store, and none about to be made.
NothingStarted(n) ==
    /\ n.task = task /\ n.poller = poller
    /\ n.auth_store = auth_store /\ n.login_status = login_status
    /\ n.fg.pc # "save"

\* C16: selecting an option the configuration disallows, directly, by its
\* number key or by Enter on the highlight, starts no listener, no poller and
\* no credential-store write.
C16_DisallowedStartsNothing ==
    fg.pc = "idle" =>
        \A res \in Results :
            /\ \A option \in DisallowedOptions :
                   NothingStarted(handle_sign_in_option(W, option, res))
            /\ \A index \in 0..2 :
                   (/\ sign_in_state.tag # "ApiKeyEntry"
                    /\ index < Len(displayed_sign_in_options)
                    /\ displayed_sign_in_options[index + 1] \in DisallowedOptions)
                   => NothingStarted(handle_key_event(W, Key("Char", Chars1to3[index + 1], TRUE), res))
            /\ (sign_in_state = PickMode /\ highlighted_mode \in DisallowedOptions)
                   => NothingStarted(enter_match(handle_key_event(W, EnterKey, res), res))

\* Enter was pressed on a highlighted option that the configuration disallows.
C16_DisallowedConfirmed ==
    /\ highlighted_mode \in DisallowedOptions
    /\ fg.pc = "enter" /\ fg.snap = PickMode /\ sign_in_state = PickMode

\* C17: selecting a disallowed option in PickMode leaves PickMode, sets the
\* disabled message, and puts the highlight on the first selectable option;
\* selecting it again changes nothing more.
C17_DisallowedReported ==
    (fg.pc = "idle" /\ sign_in_state = PickMode) =>
        \A option \in DisallowedOptions, res \in Results :
            LET n == handle_sign_in_option(W, option, res)
            IN  /\ n.sign_in_state = PickMode
                /\ n.error = ApiKeyDisabledMessage
                /\ n.highlighted_mode = selectable_sign_in_options[1]
                /\ handle_sign_in_option(n, option, res) = n

C19_OptionLists ==
    /\ selectable_sign_in_options =
           CASE forced_login_method = "Api" -> <<"ApiKey">>
             [] forced_login_method = "Chatgpt" -> <<"ChatGpt", "DeviceCode">>
             [] OTHER -> <<"ChatGpt", "DeviceCode", "ApiKey">>
    /\ Range(selectable_sign_in_options) \subseteq Range(displayed_sign_in_options)
    /\ Range(displayed_sign_in_options) \ {"ChatGpt"} = SignInOptions \ ({"ChatGpt"} \cup DisallowedOptions)

\* The highlight was moved over the one selectable option of API-key-only.
C19_ApiOnlyHighlight ==
    /\ forced_login_method = "Api" /\ highlighted_mode = "ApiKey"
    /\ sign_in_state = PickMode /\ fg.pc = "idle"

\* C20: from index i of the n selectable options, move_highlight(delta) goes
\* to index (i + delta) mod n; so -1 from the first gives the last and +1
\* from the last gives the first.
C20_HighlightWraps ==
    LET options == selectable_sign_in_options
        n == Len(options)
    IN  \A i \in 1..n :
            highlighted_mode = options[i] =>
                /\ \A delta \in Deltas :
                       move_highlight(W, delta).highlighted_mode
                           = options[((i - 1 + delta) % n) + 1]
                /\ i = 1 => move_highlight(W, 0 - 1).highlighted_mode = options[n]
                /\ i = n => move_highlight(W, 1).highlighted_mode = options[1]

\* The highlight is on the last of three selectable options.
C20_OnLast ==
    /\ forced_login_method = None /\ highlighted_mode = "ApiKey"
    /\ sign_in_state = PickMode /\ fg.pc = "idle" /\ error = None

\* ---------------------------------------------------- API-key entry claims
\* The buffer holds nothing but whitespace.
Blank(value) == \A i \in 1..Len(value) : value[i] = " "

BackspaceKey == Key("Backspace", "", TRUE)

\* C21: Enter in ApiKeyEntry on an empty or whitespace-only buffer leaves the
\* state ApiKeyEntry with the same buffer and prefill flag, sets the "cannot
\* be empty" error, and neither calls the credential store nor schedules a
\* call.
C21_EmptySubmitRefused ==
    (fg.pc = "idle" /\ sign_in_state.tag = "ApiKeyEntry" /\ Blank(sign_in_state.value)) =>
        \A res \in Results :
            LET n == handle_key_event(W, EnterKey, res)
            IN  /\ n.sign_in_state = sign_in_state
                /\ n.error = ApiKeyEmptyMessage
                /\ n.fg = Idle
                /\ n.auth_store = auth_store /\ n.auth_cache = auth_cache
                /\ n.login_status = login_status

\* A whitespace-only buffer was submitted and refused.
C21_BlankRefused ==
    /\ sign_in_state = ApiKeyEntry(<<" ">>, FALSE)
    /\ error = ApiKeyEmptyMessage /\ fg.pc = "idle"

\* C22: a value is handed to the credential store only by the step of an
\* Enter in ApiKeyEntry, under a configuration that allows API-key login; the
\* value is the buffer without its surrounding whitespace and is not empty;
\* and the store changes only in the save such an Enter has scheduled.
C22_OnlySubmitSaves ==
    [][ /\ (fg'.pc = "save" /\ fg.pc # "save") =>
              /\ sign_in_state.tag = "ApiKeyEntry" /\ is_api_login_allowed
              /\ \E res \in Results :
                     /\ handle_key_event(W, EnterKey, res).fg = fg'
                     /\ handle_key_event(W, EnterKey, res).sign_in_state = sign_in_state'
              /\ sign_in_state' = sign_in_state
              /\ fg'.api_key # <<>>
              /\ ~IsWhitespace(fg'.api_key[1]) /\ ~IsWhitespace(fg'.api_key[Len(fg'.api_key)])
              /\ \E lead, trail \in Texts(MaxKeyLen) :
                     /\ Blank(lead) /\ Blank(trail)
                     /\ sign_in_state.value = lead \o fg'.api_key \o trail
        /\ (auth_store' # auth_store \/ auth_cache' # auth_cache) => fg.pc = "save"
        /\ (fg'.pc = "save") => (fg.pc # "save")
      ]_vars

\* A buffer with a trailing blank was submitted, and its trimmed value waits
\* to be saved.
C22_TrimmedSubmitted ==
    /\ fg.pc = "save" /\ fg.api_key = <<"1">>
    /\ sign_in_state = ApiKeyEntry(<<"1", " ">>, FALSE)

\* C23: a save the store accepts leaves the state ApiKeyConfigured, no error,
\* login_status ApiKey, and the AuthManager's cache equal to what the store
\* now holds.
C23_SaveSucceeds ==
    is_api_login_allowed =>
        \A api_key \in Texts(MaxKeyLen) \ {<<>>} :
            LET n == save_api_key(W, api_key, "Ok")
            IN  /\ n.sign_in_state = ApiKeyConfigured
                /\ n.error = None
                /\ n.login_status = "ApiKey"
                /\ n.auth_store = "ApiKey"
                /\ n.auth_cache = n.auth_store

\* A key was saved.
C23_Saved ==
    /\ sign_in_state = ApiKeyConfigured /\ error = None
    /\ login_status = "ApiKey" /\ auth_cache = "ApiKey" /\ fg.pc = "idle"

\* C24: a save the store refuses leaves the state ApiKeyEntry: the buffer is
\* the one it was if the state was ApiKeyEntry with a non-empty buffer, and
\* the attempted value otherwise; the prefill flag is false, the error is the
\* store's, and login_status, the store and the cache are as they were.
C24_SaveFails ==
    is_api_login_allowed =>
        \A api_key \in Texts(MaxKeyLen) \ {<<>>} :
            LET n == save_api_key(W, api_key, "Err")
                kept == sign_in_state.tag = "ApiKeyEntry" /\ sign_in_state.value # <<>>
            IN  /\ n.sign_in_state =
                       ApiKeyEntry(IF kept THEN sign_in_state.value ELSE api_key, FALSE)
                /\ n.error = SaveFailedMessage
                /\ n.login_status = login_status
                /\ n.auth_store = auth_store /\ n.auth_cache = auth_cache

\* The environment's key was submitted as prefilled and the store refused it.
C24_PrefillRefused ==
    /\ env_api_key # None
    /\ sign_in_state = ApiKeyEntry(env_api_key, FALSE)
    /\ error = SaveFailedMessage /\ fg.pc = "idle"

\* C25: in ApiKeyEntry a true prefill flag means the buffer is the
\* environment's key; and every plain character, every backspace, every paste
\* that is not empty once trimmed, and every refused save leaves the flag
\* false.
C25_PrefillIsVerbatim ==
    sign_in_state.tag = "ApiKeyEntry" =>
        /\ sign_in_state.prepopulated_from_env =>
               (env_api_key # None /\ sign_in_state.value = env_api_key)
        /\ fg.pc = "idle" =>
               /\ \A c \in Chars :
                      ~handle_key_event(W, Key("Char", c, TRUE), "Ok")
                           .sign_in_state.prepopulated_from_env
               /\ ~handle_key_event(W, BackspaceKey, "Ok").sign_in_state.prepopulated_from_env
               /\ \A pasted \in Texts(MaxKeyLen) :
                      trim(pasted) # <<>> =>
                          ~handle_paste(W, pasted).sign_in_state.prepopulated_from_env
               /\ \A api_key \in Texts(MaxKeyLen) \ {<<>>} :
                      ~save_api_key(W, api_key, "Err").sign_in_state.prepopulated_from_env

\* The buffer equals the environment's key and is no longer marked as the
\* prefill.
C25_TypedLikePrefill ==
    /\ env_api_key # None /\ error = None /\ fg.pc = "idle"
    /\ sign_in_state = ApiKeyEntry(env_api_key, FALSE)
    /\ login_status = "NotAuthenticated" /\ forced_login_method = "Api"
    /\ highlighted_mode = "ApiKey"

\* The edits of ApiKeyEntry, with the pastes in texts replacing a prefill.
Edits(texts) ==
    (fg.pc = "idle" /\ sign_in_state.tag = "ApiKeyEntry") =>
        LET value == sign_in_state.value
            prefilled == sign_in_state.prepopulated_from_env
        IN  /\ \A c \in Chars :
                   handle_key_event(W, Key("Char", c, TRUE), "Ok").sign_in_state.value
                       = IF prefilled THEN <<c>> ELSE value \o <<c>>
            /\ handle_key_event(W, BackspaceKey, "Ok").sign_in_state.value
                   = IF prefilled \/ value = <<>> THEN <<>>
                     ELSE SubSeq(value, 1, Len(value) - 1)
            /\ \A pasted \in texts :
                   handle_paste(W, pasted).sign_in_state.value
                       = IF prefilled THEN trim(pasted) ELSE value \o trim(pasted)

\* C26: on a prefilled buffer a character leaves that character alone and a
\* backspace the empty buffer, and a paste with something other than
\* whitespace in it leaves its trimmed text; on another buffer the character
\* is appended, the backspace removes the last character and the paste appends
\* its trimmed text; a paste of whitespace alone changes nothing.
C26_PrefillIsOneSuggestion ==
    /\ Edits({pasted \in Texts(MaxKeyLen) : trim(pasted) # <<>>})
    /\ \A pasted \in Texts(MaxKeyLen) : Blank(pasted) => handle_paste(W, pasted) = W

\* C26 as stated: every paste on a prefilled buffer leaves exactly its trimmed
\* text.
C26_EveryPasteReplaces == Edits(Texts(MaxKeyLen) \ {<<>>})

\* The prefill was replaced and the replacement extended.
C26_ReplacedThenAppended ==
    /\ env_api_key # None /\ error = None /\ fg.pc = "idle"
    /\ sign_in_state = ApiKeyEntry(<<"2", "3">>, FALSE)

\* ------------------------------------------- device code and completion
\* C27: Esc in a poller's DeviceCodePending leaves PickMode and signals that
\* poller's cancellation and no other's; a second Esc changes nothing; and
\* the poller's next step, whatever the remote service answers, finds the
\* signal and ends with the state still PickMode and nothing stored.
C27_EscCancelsPoller ==
    \A p \in Pollers :
        (fg.pc = "idle" /\ sign_in_state.tag = "ChatGptDeviceCode" /\ sign_in_state.id = p) =>
            LET once  == handle_key_event(W, EscKey, "Ok")
                twice == handle_key_event(once, EscKey, "Ok")
            IN  /\ poller[p] \in {"requesting", "polling"} /\ ~cancel[p]
                /\ once.sign_in_state = PickMode
                /\ once.cancel = [cancel EXCEPT ![p] = TRUE]
                /\ once.poller = poller
                /\ twice = once
                /\ \A res \in Results :
                       LET after == IF poller[p] = "requesting" THEN poller_code(twice, p, res)
                                                                ELSE poller_finish(twice, p, res)
                       IN  /\ after.poller = [poller EXCEPT ![p] = "done"]
                           /\ after.sign_in_state = PickMode
                           /\ after.error = once.error
                           /\ after.auth_store = auth_store /\ after.cancel = once.cancel

\* The code was shown, Esc was pressed, and the poller has not looked yet.
C27_CancelledWithCode ==
    \E p \in Pollers :
        /\ poller[p] = "polling" /\ cancel[p]
        /\ sign_in_state = PickMode /\ error = None /\ fg.pc = "idle"
        /\ \A o \in Pollers \ {p} : poller[o] = "none"
        /\ \A l \in Listeners : task[l] = "none"

\* C28: a step that replaces a poller's DeviceCodePending and leaves the
\* poller running has signalled the poller's cancellation.
C28_ReplacementCancels ==
    [][ \A p \in Pollers :
            ( /\ sign_in_state.tag = "ChatGptDeviceCode" /\ sign_in_state.id = p
              /\ ~(sign_in_state'.tag = "ChatGptDeviceCode" /\ sign_in_state'.id = p)
              /\ poller'[p] \in {"requesting", "polling"} )
                => cancel'[p]
      ]_vars

\* C29: a step that makes the state ChatGptSuccess is a step of the
\* foreground, no task's and no poller's: the second half of an Enter that
\* read ChatGptSuccessMessage, or a selection made with a ChatGPT
\* login_status.
C29_AuthenticatedByUserOnly ==
    [][ (sign_in_state'.tag = "ChatGptSuccess" /\ sign_in_state.tag # "ChatGptSuccess") =>
            /\ task' = task /\ poller' = poller /\ reloaded' = reloaded
            /\ fg'.pc = "idle"
            /\ \/ fg.pc = "enter" /\ fg.snap.tag = "ChatGptSuccessMessage"
               \/ /\ login_status = "Chatgpt"
                  /\ fg.pc = "idle" \/ (fg.pc = "enter" /\ fg.snap.tag = "PickMode")
      ]_vars

\* The browser flow's success was acknowledged with Enter.
C29_Acknowledged ==
    /\ sign_in_state = ChatGptSuccess /\ login_status = "NotAuthenticated"
    /\ fg.pc = "idle"
    /\ \E l \in Listeners : task[l] = "succeeded"

\* C30: get_step_state answers Complete exactly in ChatGptSuccess and in
\* ApiKeyConfigured, and InProgress in every other state,
\* ChatGptSuccessMessage among them.
C30_CompleteIffSignedIn ==
    /\ get_step_state(W) = "Complete"
           <=> sign_in_state.tag \in {"ChatGptSuccess", "ApiKeyConfigured"}
    /\ get_step_state(W) = "InProgress"
           <=> sign_in_state.tag \notin {"ChatGptSuccess", "ApiKeyConfigured"}
    /\ sign_in_state.tag = "ChatGptSuccessMessage" => get_step_state(W) = "InProgress"

\* The browser reported success and the step is still in progress.
C30_MessageInProgress ==
    /\ sign_in_state = ChatGptSuccessMessage /\ get_step_state(W) = "InProgress"
    /\ \E l \in Listeners : task[l] = "succeeded"

\* ------------------------------------------------ terminal states and keys
\* C34: in ChatGptSuccess and in ApiKeyConfigured no key event changes the
\* sign-in state, starts a listener or a poller, or writes the credential
\* store, at once or in the step the key leaves pending.
C34_TerminalStatesAbsorb ==
    (fg.pc = "idle" /\ sign_in_state.tag \in {"ChatGptSuccess", "ApiKeyConfigured"}) =>
        \A key \in Keys : \A res \in Results :
            LET n == handle_key_event(W, key, res)
                m == IF n.fg.pc = "enter" THEN enter_match(n, res) ELSE n
            IN  /\ m.sign_in_state = sign_in_state
                /\ m.task = task /\ m.poller = poller
                /\ m.auth_store = auth_store /\ m.fg.pc = "idle"

\* The characters that navigate or select outside the key entry.
NavigationChars == {"j", "k", "1", "2", "3"}

\* C36: in ApiKeyEntry no key event moves the highlight, selects an option or
\* starts a flow; j, k, 1, 2 and 3 go to the end of the buffer (of the
\* emptied buffer, on a prefill); and a key that is not Esc, Enter, Backspace
\* or a plain character changes nothing at all.
C36_EntryConsumesKeys ==
    (fg.pc = "idle" /\ sign_in_state.tag = "ApiKeyEntry") =>
        /\ \A key \in Keys \cup {Key("Char", c, TRUE) : c \in NavigationChars} :
               \A res \in Results :
                   LET n == handle_key_event(W, key, res)
                   IN  /\ n.highlighted_mode = highlighted_mode
                       /\ n.task = task /\ n.poller = poller
                       /\ n.fg.pc # "enter"
                       /\ n.sign_in_state.tag \in {"ApiKeyEntry", "PickMode"}
                       /\ (n.sign_in_state.tag = "PickMode") => (key.code = "Esc")
                       /\ (key.code \notin {"Esc", "Enter", "Backspace"}
                             /\ ~(key.code = "Char" /\ key.plain)) => (n = W)
        /\ \A c \in NavigationChars :
               handle_key_event(W, Key("Char", c, TRUE), "Ok").sign_in_state
                   = ApiKeyEntry((IF sign_in_state.prepopulated_from_env
                                  THEN <<>> ELSE sign_in_state.value) \o <<c>>,
                                 FALSE)

\* A digit was typed after a character, with the highlight elsewhere.
C36_DigitTyped ==
    /\ sign_in_state = ApiKeyEntry(<<" ", "2">>, FALSE)
    /\ highlighted_mode = "ChatGpt" /\ forced_login_method = None
    /\ fg.pc = "idle" /\ error = None

\* C37: the selectable list is never empty, and move_highlight leaves the
\* highlight on a selectable option; from a highlight that is not selectable
\* it counts from index 0.
C37_HighlightSelectable ==
    LET options == selectable_sign_in_options
        n == Len(options)
    IN  /\ n > 0
        /\ \A delta \in Deltas :
               /\ move_highlight(W, delta).highlighted_mode \in Range(options)
               /\ highlighted_mode \notin Range(options) =>
                      move_highlight(W, delta).highlighted_mode = options[(delta % n) + 1]

\* The highlight is on ChatGPT where only the API key can be selected.
C37_HighlightNotSelectable ==
    /\ forced_login_method = "Api" /\ highlighted_mode = "ChatGpt"
    /\ sign_in_state.tag = "ApiKeyEntry" /\ fg.pc = "idle"

\* ------------------------------------------------------------- redraws
\* C39: at the end of every step of a handler or task, a write of the sign-in
\* state has been followed by schedule_frame.
C39_RedrawFollowsWrite == ~unframed

\* ------------------------------------------------------------ the lock
Ended == {"succeeded", "failed"}

\* C31: a task that awaits its listener holds no guard and is not blocked in
\* write(); so while every running task awaits, the lock is free of tasks.
C31_NoGuardAcrossAwait ==
    /\ \A l \in Listeners :
           task[l] = "awaiting" => (lock.writer # l /\ l \notin lock.waiting)
    /\ (\A l \in Listeners : task[l] \in {"none", "awaiting"} \cup Ended) =>
           (lock.writer = 0 /\ lock.waiting = {})

\* The render path holds both its read guards while a task awaits.
C31_RenderedDuringAwait ==
    /\ \E l \in Listeners : task[l] = "awaiting" /\ sign_in_state = ChatGptContinueInBrowser(l)
    /\ render.pc = "inner" /\ lock.writer = 0

\* C35: the render path never calls read() under its own read guard with a
\* writer queued, the state in which neither can go on.
C35_RenderNeverBlocksItself ==
    ~(render.pc = "inner_wait" /\ lock.waiting # {})

\* C38: a task whose listener was told to shut down ends, and a task that
\* has ended stays ended.
C38_CancelledTaskEnds ==
    /\ \A l \in Listeners :
           (task[l] \in {"awaiting", "erred"} /\ shutdowns[l] > 0) ~> (task[l] \in Ended)
    /\ [][\A l \in Listeners : task[l] \in Ended => task'[l] = task[l]]_vars
\* Texts s and t are the same but for the case of their ASCII letters.
SameIgnoringCase(s, t) ==
    /\ Len(s) = Len(t)
    /\ \A i \in DOMAIN s : ascii_lower(s[i]) = ascii_lower(t[i])

\* Value v is one of codes, but for case and for blanks around it.
Recognised(v, codes) ==
    \E i \in 1..(Len(v) + 1), j \in 0..Len(v) :
        /\ \A k \in DOMAIN v : (k < i \/ k > j) => v[k] = " "
        /\ \E c \in codes : SameIgnoringCase(SubSeq(v, i, j), c)

ExplicitIn(codes) ==
    environ["CODEX_UI_LANG"] # Absent /\ Recognised(environ["CODEX_UI_LANG"][1], codes)

HasZh(v) == \E i \in 1..(Len(v) - 1) : v[i] \in {"z", "Z"} /\ v[i + 1] \in {"h", "H"}

LocaleSaysZh ==
    \E k \in EnvNames \ {"CODEX_UI_LANG"} : environ[k] # Absent /\ HasZh(environ[k][1])

WindowsSaysZh ==
    /\ platform.windows /\ platform.locale_name # Absent
    /\ Len(platform.locale_name[1]) >= 2
    /\ platform.locale_name[1][1] \in {"z", "Z"} /\ platform.locale_name[1][2] \in {"h", "H"}

\* C32 as stated: a recognised CODEX_UI_LANG decides the language whatever the
\* locale says, and without one tr returns the Chinese text exactly when one
\* of LC_ALL, LC_MESSAGES, LANG, LANGUAGE contains "zh" in any case.
C32_LocaleVariablesDecide ==
    text # None =>
        /\ ExplicitIn(EnCodes) => text = "Hello"
        /\ ExplicitIn(ZhCodes) => text = "NiHao"
        /\ (~ExplicitIn(EnCodes) /\ ~ExplicitIn(ZhCodes)) =>
               (text = "NiHao" <=> LocaleSaysZh)

\* C32: a recognised CODEX_UI_LANG (en, en-us, en_us; zh, zh-cn, zh_cn,
\* zh-hans, zh_hans; trimmed, in any case) decides the language whatever the
\* locale says; without one, tr returns the Chinese text exactly when one of
\* LC_ALL, LC_MESSAGES, LANG, LANGUAGE contains "zh" in any case or, on a
\* Windows build outside tests, the user's default locale name starts with
\* "zh" in any case.
C32_LocaleOrWindowsDecides ==
    text # None =>
        /\ ExplicitIn(EnCodes) => text = "Hello"
        /\ ExplicitIn(ZhCodes) => text = "NiHao"
        /\ (~ExplicitIn(EnCodes) /\ ~ExplicitIn(ZhCodes)) =>
               (text = "NiHao" <=> (LocaleSaysZh \/ WindowsSaysZh))

\* tr was called with CODEX_UI_LANG a recognised English code while a locale
\* variable and the Windows locale both say Chinese, and returned English.
C32_ExplicitEnglishWins ==
    text = "Hello" /\ ExplicitIn(EnCodes) /\ LocaleSaysZh /\ WindowsSaysZh

\* The announcement at position i can be shown today: its content is not
\* blank, its dates and its pattern are well formed, the pattern (if any)
\* matches the version, today is on or after from_date and before to_date,
\* and its target is cli in any case or absent.
Shown(i) ==
    LET raw == document[i]
    IN  /\ trim(raw.content.value) # <<>>
        /\ raw.version_regex # Absent =>
               /\ Regex_new(raw.version_regex[1]) # Absent
               /\ is_match(raw.version_regex[1], CODEX_CLI_VERSION)
        /\ raw.from_date # Absent =>
               /\ parse_from_str(raw.from_date[1]) # Absent
               /\ today >= parse_from_str(raw.from_date[1])[1]
        /\ raw.to_date # Absent =>
               /\ parse_from_str(raw.to_date[1]) # Absent
               /\ today < parse_from_str(raw.to_date[1])[1]
        /\ raw.target_app # Absent => SameIgnoringCase(raw.target_app[1], <<"c", "l", "i">>)

\* The same with the content taken as written, blank or not, and the target
\* compared as written.
ShownAsWritten(i) ==
    LET raw == document[i]
    IN  /\ raw.version_regex # Absent =>
               /\ Regex_new(raw.version_regex[1]) # Absent
               /\ is_match(raw.version_regex[1], CODEX_CLI_VERSION)
        /\ raw.from_date # Absent =>
               /\ parse_from_str(raw.from_date[1]) # Absent
               /\ today >= parse_from_str(raw.from_date[1])[1]
        /\ raw.to_date # Absent =>
               /\ parse_from_str(raw.to_date[1]) # Absent
               /\ today < parse_from_str(raw.to_date[1])[1]
        /\ raw.target_app # Absent => raw.target_app[1] = <<"c", "l", "i">>

Deserializes == \A i \in DOMAIN document : document[i].content.type = "string"

\* C33 as stated: the result is the content of the last announcement whose
\* pattern, date window and target ("cli" or absent) match, and None when
\* there is none or the document does not deserialize.
C33_LastMatchingAsWritten ==
    announcement_tip.called =>
        IF Deserializes /\ \E i \in DOMAIN document : ShownAsWritten(i)
        THEN LET last == CHOOSE i \in DOMAIN document :
                             /\ ShownAsWritten(i)
                             /\ \A j \in DOMAIN document : ShownAsWritten(j) => j <= i
             IN  announcement_tip.value = Some(document[last].content.value)
        ELSE announcement_tip.value = Absent

\* C33: the result is the trimmed content of the last announcement, in
\* document order, that has a content other than blanks, well-formed dates
\* and pattern, and matches all of: version pattern (absent = any), date
\* window with from_date inclusive and to_date exclusive (absent =
\* unbounded), target_app equal to "cli" in any case (absent = cli); it is
\* None when there is no such announcement or the document does not
\* deserialize.
C33_LastShownTrimmed ==
    announcement_tip.called =>
        IF Deserializes /\ \E i \in DOMAIN document : Shown(i)
        THEN LET last == CHOOSE i \in DOMAIN document :
                             /\ Shown(i)
                             /\ \A j \in DOMAIN document : Shown(j) => j <= i
             IN  announcement_tip.value = Some(trim(document[last].content.value))
        ELSE announcement_tip.value = Absent

\* Three announcements were parsed: the first two can be shown, the third
\* one cannot, and the second one's content came back.
C33_SecondOfThree ==
    /\ announcement_tip.called /\ Len(document) = 3
    /\ Deserializes /\ Shown(1) /\ Shown(2) /\ ~Shown(3)
    /\ document[1].content.value # document[2].content.value
    /\ announcement_tip.value = Some(trim(document[2].content.value))

====
